---- MODULE Spec2Model ----
(***************************************************************************)
(* Honey Shop API (src/main.py, src/schemas.py): the pricing functions,    *)
(* the quote and order handlers, the demo-data seeder and the product      *)
(* lookup, as a state machine over the three database collections.         *)
(*                                                                         *)
(* Money.  Request prices are in mills (1/1000 USD) so that a price such   *)
(* as 12.993 exists; every amount the pricing functions return is in       *)
(* cents.  Tax rates are in 1/10000.                                       *)
(*                                                                         *)
(* round(x, 2).  CPython rounds the binary double it is given, correctly,  *)
(* to the nearest cent.  Off a decimal tie the result is the nearest cent. *)
(* On a decimal tie (x.xx5) the stored double lies just below or just      *)
(* above the tie, or on it, and the result is the cent below or the cent   *)
(* above accordingly.  The variable fp holds, for the operand of each of   *)
(* the two rounding sites that can meet a tie, which way it goes; the      *)
(* operands are fixed by the request, so the direction is fixed with it.   *)
(***************************************************************************)
EXTENDS Integers, Sequences, FiniteSets, TLC

VARIABLES
    db,         \* TRUE: the connection handle exists (database.db is not None)
    category,   \* the `category` collection: documents in insertion order
    product,    \* the `product` collection
    order,      \* the `order` collection
    items,      \* the `items` of the request body under test
    customer,   \* the `customer` of the request body under test
    fp,         \* [sub, tax]: TRUE when the rounding site resolves a tie upwards
    quoteResp,  \* the response to the last POST /api/pricing/quote
    orderLog,   \* POST /api/orders requests served: <<[client, resp]>>
    pc,         \* ensure_seeded invocations: the statement each is at
    created,    \* ensure_seeded invocations: the local `created` dict
    caught,     \* ensure_seeded invocations: the except clause has run
    seedLog,    \* the `created` dicts returned, in order of return
    lookupResp  \* the response to the last GET /api/products/{product_id}

vars == <<db, category, product, order, items, customer, fp,
          quoteResp, orderLog, pc, created, caught, seedLog, lookupResp>>

dbVars      == <<db, category, product, order>>
pricingVars == <<items, customer, fp, quoteResp, orderLog>>
seedVars    == <<pc, created, caught, seedLog>>

-----------------------------------------------------------------------------
(* Bounds *)

MaxItems      == 2  \* items per request
MaxOrders     == 2  \* order requests per behaviour
NumSeeders    == 2  \* ensure_seeded invocations per behaviour
MaxClientDocs == 1  \* documents created through POST /api/categories, /api/products
MaxDocs       == 2  \* products stored when a lookup is served

-----------------------------------------------------------------------------
(* Values *)

\* Python's None where a string is optional.
None == "<None>"

\* str.upper() on the strings the requests use.
Upper(s) ==
    CASE s = "us" -> "US"
      [] s = "Us" -> "US"
      [] s = "de" -> "DE"
      [] s = "ca" -> "CA"
      [] s = "ny" -> "NY"
      [] OTHER    -> s

RECURSIVE SumSeq(_)
SumSeq(s) == IF s = <<>> THEN 0 ELSE s[1] + SumSeq(Tail(s))

Max(a, b) == IF a >= b THEN a ELSE b

\* n/d is on a tie between two integers.
IsTie(n, d) == 2 * (n % d) = d

\* round(): n/d (n >= 0) to the nearest integer; a tie goes up when `up`.
round(n, d, up) ==
    LET q == n \div d
        r == n % d
    IN  IF 2 * r < d THEN q
        ELSE IF 2 * r > d THEN q + 1
        ELSE IF up THEN q + 1 ELSE q

-----------------------------------------------------------------------------
(* Pricing/Tax/Shipping *)

\* The sum calc_subtotal rounds, in mills.
SubtotalMills(its) ==
    SumSeq([i \in 1..Len(its) |-> Max(0, its[i].price) * Max(1, its[i].quantity)])

calc_subtotal(its) == round(SubtotalMills(its), 10, fp.sub)

\* `destination.country if destination else "US"`, upper-cased.
Country(destination) ==
    Upper(IF destination.present THEN destination.country ELSE "US")

\* calc_shipping with the free-shipping threshold exclusive.
calc_shipping_exclusive(subtotal, destination) ==
    IF Country(destination) # "US"
    THEN (IF subtotal > 0 THEN 1200 ELSE 0)
    ELSE IF subtotal > 5000 THEN 0
    ELSE IF subtotal > 0 THEN 500 ELSE 0

calc_shipping(subtotal, destination) ==
    IF Country(destination) # "US"
    THEN (IF subtotal > 0 THEN 1200 ELSE 0)
    ELSE IF subtotal >= 5000 THEN 0
    ELSE IF subtotal > 0 THEN 500 ELSE 0

\* STATE_TAX.get(state, 0.07), in 1/10000.
STATE_TAX(state) ==
    CASE state = "CA" -> 825
      [] state = "NY" -> 880
      [] state = "TX" -> 625
      [] state = "FL" -> 600
      [] OTHER        -> 700

\* `(destination.state or "").upper() if destination else ""`
State(destination) ==
    IF destination.present
    THEN Upper(IF destination.state = None THEN "" ELSE destination.state)
    ELSE ""

\* calc_tax taxing the shipping charge too.
calc_tax_on_shipping(subtotal, shipping, destination) ==
    IF Country(destination) # "US"
    THEN 0
    ELSE round((subtotal + shipping) * STATE_TAX(State(destination)), 10000, fp.tax)

calc_tax(subtotal, shipping, destination) ==
    IF Country(destination) # "US"
    THEN 0
    ELSE round(subtotal * STATE_TAX(State(destination)), 10000, fp.tax)

-----------------------------------------------------------------------------
(* Schemas *)

\* OrderItem: price ge=0, quantity ge=1.
OrderItemValid(i) == i.price >= 0 /\ i.quantity >= 1

OrderItemsValid(its) == \A i \in 1..Len(its) : OrderItemValid(its[i])

\* Customer(**body): `country` defaults to "US" when the body omits it.
Customer(body) ==
    IF body.present /\ body.country = None
    THEN [body EXCEPT !.country = "US"]
    ELSE body

\* Order: items valid, customer required, subtotal/shipping/total ge=0.
OrderValid(its, cust, client) ==
    /\ OrderItemsValid(its)
    /\ cust.present
    /\ client.subtotal >= 0
    /\ client.shipping >= 0
    /\ client.total >= 0

-----------------------------------------------------------------------------
(* Database Access Layer (database.py): the operations main.py imports *)

\* A document's identifier: the integer n stands for the ObjectId generated
\* for the n-th document of its collection.
NewOid(coll) == Len(coll) + 1

\* create_document(collection, data): the collection with the document
\* appended under a fresh identifier.
create_document(coll, data) == Append(coll, [data EXCEPT !._id = NewOid(coll)])

-----------------------------------------------------------------------------
(* Pricing endpoints (quote) *)

NoQuote == [status |-> 0, subtotal |-> 0, shipping |-> 0, tax |-> 0, total |-> 0]

\* quote_body pricing for the default destination whatever the customer.
quote_body_no_customer(its, cust) ==
    LET nobody   == [present |-> FALSE, country |-> None, state |-> None]
        subtotal == calc_subtotal(its)
        shipping == calc_shipping(subtotal, nobody)
        tax      == calc_tax(subtotal, shipping, nobody)
    IN  [status   |-> 200,
         subtotal |-> subtotal,
         shipping |-> shipping,
         tax      |-> tax,
         total    |-> subtotal + shipping + tax]

\* The body pricing_quote returns (lines 277-286), for items that passed the
\* OrderItem constructor.
quote_body(its, cust) ==
    LET subtotal == calc_subtotal(its)
        shipping == calc_shipping(subtotal, cust)
        tax      == calc_tax(subtotal, shipping, cust)
        total    == round(subtotal + shipping + tax, 1, FALSE)
    IN  [status   |-> 200,
         subtotal |-> round(subtotal, 1, FALSE),
         shipping |-> round(shipping, 1, FALSE),
         tax      |-> round(tax, 1, FALSE),
         total    |-> total]

\* POST /api/pricing/quote.  The handler builds an OrderItem from every
\* QuoteItem (line 276); OrderItem validates its fields on construction and
\* the ValidationError it raises is not caught: the request ends 500.
pricing_quote ==
    /\ quoteResp' =
          IF OrderItemsValid(items)
          THEN quote_body(items, IF customer.present THEN Customer(customer) ELSE customer)
          ELSE [NoQuote EXCEPT !.status = 500]
    /\ UNCHANGED <<dbVars, items, customer, fp, orderLog, seedVars, lookupResp>>

-----------------------------------------------------------------------------
(* Orders Endpoints *)

\* The emptiness check never firing.
EmptyItems_never(its) == FALSE

\* `not payload.items or len(payload.items) == 0`
EmptyItems(its) == Len(its) = 0

\* The snapshot persisted as the client sent it.
safe_order_verbatim(its, cust, client) ==
    [_id      |-> 0,
     items    |-> its,
     customer |-> cust,
     subtotal |-> client.subtotal,
     shipping |-> client.shipping,
     total    |-> client.total,
     status   |-> client.status]

\* The order snapshot create_order persists (lines 302-311): the validated
\* payload with subtotal, shipping and total overwritten.
safe_order(its, cust, client) ==
    LET subtotal     == calc_subtotal(its)
        shipping_val == calc_shipping(subtotal, cust)
        tax_val      == calc_tax(subtotal, shipping_val, cust)
        total_val    == round(subtotal + shipping_val + tax_val, 1, FALSE)
    IN  [_id      |-> 0,
         items    |-> its,
         customer |-> cust,
         subtotal |-> round(subtotal, 1, FALSE),
         shipping |-> round(shipping_val, 1, FALSE),
         total    |-> total_val,
         status   |-> client.status]

\* The `tax` of the response (tax_val, line 314).
order_tax(its, cust) ==
    LET subtotal == calc_subtotal(its)
    IN  calc_tax(subtotal, calc_shipping(subtotal, cust), cust)

OrderError(code) ==
    [status |-> code, id |-> 0, subtotal |-> 0, shipping |-> 0, tax |-> 0, total |-> 0]

\* The response of create_order to the body (items, customer, client).
order_response(client) ==
    IF ~OrderValid(items, customer, client) THEN OrderError(422)
    ELSE IF EmptyItems(items) THEN OrderError(400)
    ELSE IF ~db THEN OrderError(500)
    ELSE LET doc == safe_order(items, Customer(customer), client)
         IN  [status   |-> 201,
              id       |-> NewOid(order),
              subtotal |-> doc.subtotal,
              shipping |-> doc.shipping,
              tax      |-> order_tax(items, Customer(customer)),
              total    |-> doc.total]

\* POST /api/orders with the client-submitted subtotal, shipping, total and
\* status `client`.  The body is validated against Order before the handler
\* runs (422); the handler rejects empty items (400); create_document raises
\* without a connection (500).
create_order(client) ==
    /\ Len(orderLog) < MaxOrders
    /\ LET resp == order_response(client)
       IN  /\ orderLog' = Append(orderLog, [client |-> client, resp |-> resp])
           /\ IF resp.status = 201
              THEN order' = create_document(order,
                                 safe_order(items, Customer(customer), client))
              ELSE UNCHANGED order
    /\ UNCHANGED <<db, category, product, items, customer, fp, quoteResp,
                   seedVars, lookupResp>>

-----------------------------------------------------------------------------
(* Requests the pricing behaviours draw from *)

ItemChoices ==
    { [price |-> -5000, quantity |-> 0],
      [price |-> 0,     quantity |-> 1],
      [price |-> 12993, quantity |-> 2],
      [price |-> 12993, quantity |-> 5],
      [price |-> 25000, quantity |-> 1],
      [price |-> 26000, quantity |-> 1],
      [price |-> 30000, quantity |-> 2],
      [price |-> 49990, quantity |-> 1] }

ItemLists == UNION { [1..n -> ItemChoices] : n \in 0..MaxItems }

NoCustomer == [present |-> FALSE, country |-> None, state |-> None]

CustomerChoices ==
    { NoCustomer } \cup
    { [present |-> TRUE, country |-> "US", state |-> s] :
        s \in {None, "CA", "NY", "TX", "FL", "WA"} } \cup
    { [present |-> TRUE, country |-> "us", state |-> "ca"],
      [present |-> TRUE, country |-> None, state |-> "ny"],
      [present |-> TRUE, country |-> "DE", state |-> None],
      [present |-> TRUE, country |-> "de", state |-> "CA"] }

ClientChoices ==
    { [subtotal |-> 0,     shipping |-> 0,   total |-> 0,     status |-> "pending"],
      [subtotal |-> 1,     shipping |-> 0,   total |-> 1,     status |-> "paid"],
      [subtotal |-> 99900, shipping |-> 500, total |-> -1,    status |-> "pending"] }

\* The directions the two rounding sites can take for a request: a site goes
\* up only where its operand is on a tie.
TieChoices(its, cust) ==
    { f \in [sub : BOOLEAN, tax : BOOLEAN] :
        /\ f.sub => IsTie(SubtotalMills(its), 10)
        /\ f.tax => LET c == IF cust.present THEN Customer(cust) ELSE cust
                        s == round(SubtotalMills(its), 10, f.sub)
                    IN  /\ Country(c) = "US"
                        /\ IsTie(s * STATE_TAX(State(c)), 10000) }

EmptyDb ==
    /\ category = <<>>
    /\ product = <<>>
    /\ order = <<>>

Seeders == 1..NumSeeders

SeedIdle ==
    /\ pc = [p \in Seeders |-> "idle"]
    /\ created = [p \in Seeders |-> [categories |-> 0, products |-> 0]]
    /\ caught = [p \in Seeders |-> FALSE]
    /\ seedLog = <<>>

NoLookup == [status |-> 0, product_id |-> None, body |-> <<>>]

InitPricing ==
    /\ db \in BOOLEAN
    /\ EmptyDb
    /\ items \in ItemLists
    /\ customer \in CustomerChoices
    /\ fp \in TieChoices(items, customer)
    /\ quoteResp = NoQuote
    /\ orderLog = <<>>
    /\ SeedIdle
    /\ lookupResp = NoLookup

NextPricing ==
    \/ pricing_quote
    \/ \E client \in ClientChoices : create_order(client)

SpecPricing == InitPricing /\ [][NextPricing]_vars

-----------------------------------------------------------------------------
(* Seed helpers *)

\* _seed_payload(): the slugs of the 4 categories and the titles of the 6
\* products, in order.
seed_categories == <<"raw-honey", "flavored-honey", "propolis", "beeswax">>

seed_products ==
    <<"Raw Wildflower Honey 500g", "Raw Acacia Honey 250g",
      "Lavender Infused Honey 250g", "Cinnamon Infused Honey 250g",
      "Propolis Tincture 30ml", "Beeswax Candles (Set of 2)">>

CategoryDoc(oid, slug) == [_id |-> oid, slug |-> slug]

\* A product document.  Product has no `id` and no `slug` field: a document
\* written through this service carries neither.
ProductDoc(oid, title) == [_id |-> oid, title |-> title, id |-> None, slug |-> None]

\* insert_many leaving a non-empty collection as it is.
insert_many_if_empty(coll, docs) ==
    IF coll = <<>>
    THEN coll \o [i \in 1..Len(docs) |-> [docs[i] EXCEPT !._id = Len(coll) + i]]
    ELSE coll

\* db[collection].insert_many(docs): the documents appended in order, each
\* under a fresh identifier.
insert_many(coll, docs) ==
    coll \o [i \in 1..Len(docs) |-> [docs[i] EXCEPT !._id = Len(coll) + i]]

\* The emptiness check always passing.
count_is_zero_always(coll) == TRUE

\* `db[collection].count_documents({}) == 0`
count_is_zero(coll) == Len(coll) = 0

\* An exception of the try block leaving the function.
seed_except_propagates == "raised"

\* `except Exception: pass`: control goes on to `return created`.
seed_except == "return"

\* Line 146-149: created = {0, 0}; without a connection, return it.
ensure_seeded_begin(p) ==
    /\ pc[p] = "idle"
    /\ created' = [created EXCEPT ![p] = [categories |-> 0, products |-> 0]]
    /\ pc' = [pc EXCEPT ![p] = IF ~db THEN "return" ELSE "count_category"]
    /\ UNCHANGED <<dbVars, pricingVars, caught, seedLog, lookupResp>>

\* Line 151: count the categories.
seed_count_category(p) ==
    /\ pc[p] = "count_category"
    /\ pc' = [pc EXCEPT ![p] = IF count_is_zero(category)
                               THEN "insert_category" ELSE "count_product"]
    /\ UNCHANGED <<dbVars, pricingVars, created, caught, seedLog, lookupResp>>

\* Lines 152-153: insert the categories and record their number.
seed_insert_category(p) ==
    /\ pc[p] = "insert_category"
    /\ category' = insert_many(category,
                       [i \in 1..Len(seed_categories) |-> CategoryDoc(0, seed_categories[i])])
    /\ created' = [created EXCEPT ![p].categories = Len(seed_categories)]
    /\ pc' = [pc EXCEPT ![p] = "count_product"]
    /\ UNCHANGED <<db, product, order, pricingVars, caught, seedLog, lookupResp>>

\* Line 154: count the products.
seed_count_product(p) ==
    /\ pc[p] = "count_product"
    /\ pc' = [pc EXCEPT ![p] = IF count_is_zero(product)
                               THEN "insert_product" ELSE "return"]
    /\ UNCHANGED <<dbVars, pricingVars, created, caught, seedLog, lookupResp>>

\* Lines 155-156: insert the products and record their number.
seed_insert_product(p) ==
    /\ pc[p] = "insert_product"
    /\ product' = insert_many(product,
                      [i \in 1..Len(seed_products) |-> ProductDoc(0, seed_products[i])])
    /\ created' = [created EXCEPT ![p].products = Len(seed_products)]
    /\ pc' = [pc EXCEPT ![p] = "return"]
    /\ UNCHANGED <<db, category, order, pricingVars, caught, seedLog, lookupResp>>

\* Lines 157-159: a count or an insert raises instead; the failed call leaves
\* its collection as it was.
seed_raise(p) ==
    /\ pc[p] \in {"count_category", "insert_category", "count_product", "insert_product"}
    /\ caught' = [caught EXCEPT ![p] = TRUE]
    /\ pc' = [pc EXCEPT ![p] = seed_except]
    /\ UNCHANGED <<dbVars, pricingVars, created, seedLog, lookupResp>>

\* Line 160: return created (to seed_demo, which answers {"seeded": created},
\* or to startup_event).
ensure_seeded_return(p) ==
    /\ pc[p] = "return"
    /\ seedLog' = Append(seedLog, created[p])
    /\ pc' = [pc EXCEPT ![p] = "done"]
    /\ UNCHANGED <<dbVars, pricingVars, created, caught, lookupResp>>

\* One invocation of ensure_seeded: the startup hook of a server process, or
\* a POST /api/seed request (seed_demo runs in a worker thread, and several
\* server processes may share the database).
ensure_seeded(p) ==
    \/ ensure_seeded_begin(p)
    \/ seed_count_category(p)
    \/ seed_insert_category(p)
    \/ seed_count_product(p)
    \/ seed_insert_product(p)
    \/ seed_raise(p)
    \/ ensure_seeded_return(p)

\* The documents of a collection that clients created.
ClientDocs(coll, field, value) == { i \in DOMAIN coll : coll[i][field] = value }

\* POST /api/categories: create_document("category", payload).  Without a
\* connection create_document raises and nothing is stored.
create_category ==
    /\ db
    /\ Cardinality(ClientDocs(category, "slug", "custom")) < MaxClientDocs
    /\ category' = create_document(category, CategoryDoc(0, "custom"))
    /\ UNCHANGED <<db, product, order, pricingVars, seedVars, lookupResp>>

\* POST /api/products: create_document("product", payload).  Without a
\* connection create_document raises and nothing is stored.
create_product ==
    /\ db
    /\ Cardinality(ClientDocs(product, "title", "Custom")) < MaxClientDocs
    /\ product' = create_document(product, ProductDoc(0, "Custom"))
    /\ UNCHANGED <<db, category, order, pricingVars, seedVars, lookupResp>>

\* No request priced.
PricingIdle ==
    /\ items = <<>>
    /\ customer = NoCustomer
    /\ fp = [sub |-> FALSE, tax |-> FALSE]
    /\ quoteResp = NoQuote
    /\ orderLog = <<>>

\* A fresh database, connected or not.
InitSeed ==
    /\ db \in BOOLEAN
    /\ EmptyDb
    /\ PricingIdle
    /\ SeedIdle
    /\ lookupResp = NoLookup

\* Invocations that overlap freely.
NextSeed ==
    \/ \E p \in Seeders : ensure_seeded(p)
    \/ create_category
    \/ create_product

SpecSeed == InitSeed /\ [][NextSeed]_vars

\* No invocation is between its first and its last statement.
NoneRunning == \A q \in Seeders : pc[q] \in {"idle", "done"}

\* Invocations one after the other: one begins only when none is running.
NextSeedSerial ==
    \/ \E p \in Seeders : NoneRunning /\ ensure_seeded_begin(p)
    \/ \E p \in Seeders : seed_count_category(p)
    \/ \E p \in Seeders : seed_insert_category(p)
    \/ \E p \in Seeders : seed_count_product(p)
    \/ \E p \in Seeders : seed_insert_product(p)
    \/ \E p \in Seeders : seed_raise(p)
    \/ \E p \in Seeders : ensure_seeded_return(p)
    \/ create_category
    \/ create_product

SpecSeedSerial == InitSeed /\ [][NextSeedSerial]_vars

-----------------------------------------------------------------------------
(* Catalog Endpoints: GET /api/products/{product_id} *)

\* str(ObjectId): the 24 hex digits of the n-th identifier.
OidHex ==
    <<"65f0000000000000000000a1", "65f0000000000000000000a2",
      "65f0000000000000000000a3", "65f0000000000000000000a4">>

str(oid) == OidHex[oid]

\* The strings ObjectId() accepts: 24 hex digits, in either case.
OidForms(oid) ==
    CASE oid = 1 -> {"65f0000000000000000000a1", "65F0000000000000000000A1"}
      [] oid = 2 -> {"65f0000000000000000000a2", "65F0000000000000000000A2"}
      [] oid = 3 -> {"65f0000000000000000000a3", "65F0000000000000000000A3"}
      [] oid = 4 -> {"65f0000000000000000000a4", "65F0000000000000000000A4"}
      [] OTHER   -> {}

\* ObjectId(s): the identifier s denotes, 0 when the constructor raises
\* (s is not 24 hex digits).
ObjectId(s) ==
    IF \E n \in DOMAIN OidHex : s \in OidForms(n)
    THEN CHOOSE n \in DOMAIN OidHex : s \in OidForms(n)
    ELSE 0

\* find_one's None.
NoDoc == [_id |-> 0, title |-> None, id |-> None, slug |-> None]

\* db["product"].find_one({field: value}): the first document, in the
\* collection's order, whose `field` is `value`.
find_one(coll, field, value) ==
    LET hits == { i \in DOMAIN coll : coll[i][field] = value }
    IN  IF hits = {} THEN NoDoc
        ELSE coll[CHOOSE i \in hits : \A j \in hits : i <= j]

\* to_str_id(doc): `_id` popped and its string form stored under `id`.
to_str_id(doc) == [id |-> str(doc._id), title |-> doc.title, slug |-> doc.slug]

\* The lookups with the slug tried before the `id` field.
lookup_slug_first(coll, product_id) ==
    LET oid    == ObjectId(product_id)
        byOid  == IF oid # 0 THEN find_one(coll, "_id", oid) ELSE NoDoc
        bySlug == IF byOid = NoDoc THEN find_one(coll, "slug", product_id) ELSE byOid
    IN  IF bySlug = NoDoc THEN find_one(coll, "id", product_id) ELSE bySlug

\* Lines 220-233: the document get_product settles on.  ObjectId is the
\* driver's own class: where the driver made a connection it is importable.
\* The find_one calls are taken to answer; an error of the driver is not a
\* case of the lookup order.
lookup(coll, product_id) ==
    LET oid   == ObjectId(product_id)
        byOid == IF oid # 0 THEN find_one(coll, "_id", oid) ELSE NoDoc
        byId  == IF byOid = NoDoc THEN find_one(coll, "id", product_id) ELSE byOid
    IN  IF byId = NoDoc THEN find_one(coll, "slug", product_id) ELSE byId

NoBody == [id |-> None, title |-> None, slug |-> None]

get_product(product_id) ==
    /\ lookupResp' =
          IF ~db
          THEN [status |-> 500, product_id |-> product_id, body |-> NoBody]
          ELSE LET doc == lookup(product, product_id)
               IN  IF doc = NoDoc
                   THEN [status |-> 404, product_id |-> product_id, body |-> NoBody]
                   ELSE [status |-> 200, product_id |-> product_id, body |-> to_str_id(doc)]
    /\ UNCHANGED <<dbVars, pricingVars, seedVars>>

\* The path values requested.
ProductIds ==
    {"65f0000000000000000000a1", "65F0000000000000000000A2", "65f0000000000000000000a4",
     "wildflower", "acacia", "missing"}

\* The `id` and `slug` fields stored products carry; a document written by
\* another client of the database may carry either.
StoredFields ==
    { [title |-> "Honey", id |-> i, slug |-> g] :
        i \in {None, "wildflower", "65f0000000000000000000a1"},
        g \in {None, "wildflower", "acacia"} }

Catalogs ==
    UNION { { [i \in 1..n |-> [_id |-> i, title |-> f[i].title, id |-> f[i].id,
                                slug |-> f[i].slug]] : f \in [1..n -> StoredFields] }
            : n \in 0..MaxDocs }

InitLookup ==
    /\ db \in BOOLEAN
    /\ category = <<>>
    /\ product \in Catalogs
    /\ order = <<>>
    /\ PricingIdle
    /\ SeedIdle
    /\ lookupResp = NoLookup

NextLookup == \E product_id \in ProductIds : get_product(product_id)

SpecLookup == InitLookup /\ [][NextLookup]_vars

-----------------------------------------------------------------------------
(* Properties of the pricing endpoints, under SpecPricing *)

\* The destination the handlers hand to the pricing functions.
Destination == IF customer.present THEN Customer(customer) ELSE customer

\* The order requests that were accepted (201), in order.
Accepted == SelectSeq(orderLog, LAMBDA e : e.resp.status = 201)

\* C1: every accepted POST /api/orders stores the subtotal, shipping and
\* total the pricing functions give for the request's items and customer, and
\* returns the same values; accepted requests that differ only in the
\* client-submitted subtotal/shipping/total store and return the same
\* subtotal, shipping, tax and total.
C1_ServerSidePricing ==
    LET subtotal == calc_subtotal(items)
        shipping == calc_shipping(subtotal, Destination)
        tax      == calc_tax(subtotal, shipping, Destination)
    IN  /\ Len(order) = Len(Accepted)
        /\ \A i \in 1..Len(Accepted) :
              /\ order[i]._id = Accepted[i].resp.id
              /\ order[i].subtotal = subtotal
              /\ order[i].shipping = shipping
              /\ order[i].total = subtotal + shipping + tax
              /\ Accepted[i].resp.subtotal = order[i].subtotal
              /\ Accepted[i].resp.shipping = order[i].shipping
              /\ Accepted[i].resp.total = order[i].total
        /\ \A i, j \in 1..Len(Accepted) :
              /\ Accepted[i].resp.subtotal = Accepted[j].resp.subtotal
              /\ Accepted[i].resp.shipping = Accepted[j].resp.shipping
              /\ Accepted[i].resp.tax = Accepted[j].resp.tax
              /\ Accepted[i].resp.total = Accepted[j].resp.total
              /\ order[i].subtotal = order[j].subtotal
              /\ order[i].shipping = order[j].shipping
              /\ order[i].total = order[j].total

\* Two accepted orders whose client-submitted totals differ from each other
\* and from the stored ones.
C1_Witness ==
    /\ Len(Accepted) >= 2
    /\ Len(order) >= 2
    /\ Accepted[1].client.subtotal # Accepted[2].client.subtotal
    /\ Accepted[1].client.total # Accepted[2].client.total
    /\ order[1].subtotal > 1
    /\ order[2].total = order[1].total

\* C2: for non-empty valid order items and a customer, the quote and every
\* accepted order of the same items and customer return the same subtotal,
\* shipping, tax and total.
C2_QuoteAgreesWithOrder ==
    (/\ quoteResp.status # 0
     /\ items # <<>>
     /\ OrderItemsValid(items)
     /\ customer.present)
    => /\ quoteResp.status = 200
       /\ \A i \in 1..Len(Accepted) :
             /\ Accepted[i].resp.subtotal = quoteResp.subtotal
             /\ Accepted[i].resp.shipping = quoteResp.shipping
             /\ Accepted[i].resp.tax = quoteResp.tax
             /\ Accepted[i].resp.total = quoteResp.total

\* A quote and an accepted order of a taxed, shipped, non-US-default request.
C2_Witness ==
    /\ quoteResp.status = 200
    /\ customer.present
    /\ Len(Accepted) >= 1
    /\ Accepted[1].resp.tax > 0
    /\ Accepted[1].resp.shipping > 0
    /\ Accepted[1].resp.total = quoteResp.total
    /\ State(Destination) = "CA"

\* The order request just served carried valid customer and totals.
OtherwiseValid(e) ==
    /\ customer.present
    /\ e.client.subtotal >= 0
    /\ e.client.shipping >= 0
    /\ e.client.total >= 0

\* C6: a POST /api/orders with empty items and an otherwise valid body ends
\* 400 and leaves the order collection as it was.
C6_EmptyItemsRejected ==
    [][(/\ Len(orderLog') = Len(orderLog) + 1
        /\ items = <<>>
        /\ OtherwiseValid(orderLog'[Len(orderLog')]))
       => (/\ orderLog'[Len(orderLog')].resp.status = 400
           /\ order' = order)]_vars

\* An empty order was rejected with the database up.
C6_Witness ==
    /\ items = <<>>
    /\ db
    /\ \E i \in 1..Len(orderLog) :
          /\ OtherwiseValid(orderLog[i])
          /\ orderLog[i].resp.status = 400
    /\ order = <<>>

\* C7: POST /api/pricing/quote succeeds for every body of the quote schema,
\* whatever the prices and quantities, and each item contributes
\* max(0, price) * max(1, quantity) to the subtotal.
C7_QuoteNeverFails ==
    quoteResp.status # 0
    => /\ quoteResp.status = 200
       /\ quoteResp.subtotal =
             round(SumSeq([i \in 1..Len(items) |->
                       (IF items[i].price < 0 THEN 0 ELSE items[i].price)
                     * (IF items[i].quantity < 1 THEN 1 ELSE items[i].quantity)]),
                   10, fp.sub)

\* The destination's country is "US", in any case, or there is no destination.
IsUS(dest) == ~dest.present \/ dest.country \in {"US", "us", "Us", "uS"}

\* The shipping policy as the specification states it, in cents.
ShippingPolicy(subtotal, dest) ==
    IF ~IsUS(dest)
    THEN (IF subtotal > 0 THEN 1200 ELSE 0)
    ELSE IF subtotal >= 5000 THEN 0
    ELSE IF subtotal > 0 THEN 500
    ELSE 0

\* Subtotals around the policy's thresholds.
ShippingProbes == {0, 1, 4999, 5000, 5001, 100000}

\* C8: calc_shipping follows the shipping policy for every subtotal and
\* destination: in the responses, and at the thresholds.
C8_ShippingPolicy ==
    /\ \A s \in ShippingProbes \cup {calc_subtotal(items)} :
          calc_shipping(s, Destination) = ShippingPolicy(s, Destination)
    /\ quoteResp.status = 200
       => quoteResp.shipping = ShippingPolicy(quoteResp.subtotal, Destination)
    /\ \A i \in 1..Len(Accepted) :
          Accepted[i].resp.shipping
            = ShippingPolicy(Accepted[i].resp.subtotal, Destination)

\* A US quote of exactly 50.00 ships free.
C8_Witness ==
    /\ quoteResp.status = 200
    /\ customer.present
    /\ customer.country = "us"
    /\ quoteResp.subtotal = 5000
    /\ quoteResp.shipping = 0

\* The tax rate as the specification states it, in 1/10000.
ExpectedRate(dest) ==
    IF ~dest.present THEN 700
    ELSE IF dest.state \in {"CA", "ca", "Ca", "cA"} THEN 825
    ELSE IF dest.state \in {"NY", "ny", "Ny", "nY"} THEN 880
    ELSE IF dest.state \in {"TX", "tx", "Tx", "tX"} THEN 625
    ELSE IF dest.state \in {"FL", "fl", "Fl", "fL"} THEN 600
    ELSE 700

ExpectedTax(subtotal, dest) ==
    IF ~IsUS(dest) THEN 0
    ELSE round(subtotal * ExpectedRate(dest), 10000, fp.tax)

\* The shipping arguments calc_tax is probed with.
ShippingArgs == {0, 500, 1200}

\* C9: calc_tax does not depend on its shipping argument; it is 0 for a
\* non-US destination and subtotal * rate rounded to cents for a US or absent
\* one, the rate looked up by state whatever its case, 0.07 when unlisted or
\* not supplied.
C9_TaxOnGoodsOnly ==
    /\ \A sh \in ShippingArgs :
          calc_tax(calc_subtotal(items), sh, Destination)
            = ExpectedTax(calc_subtotal(items), Destination)
    /\ quoteResp.status = 200
       => quoteResp.tax = ExpectedTax(quoteResp.subtotal, Destination)
    /\ \A i \in 1..Len(Accepted) :
          Accepted[i].resp.tax = ExpectedTax(Accepted[i].resp.subtotal, Destination)

\* A quote taxed at a listed state's rate given in lower case, with shipping
\* charged and not taxed: 25.99 at 8.25% is 2.14.
C9_Witness ==
    /\ quoteResp.status = 200
    /\ customer.present
    /\ customer.state = "ca"
    /\ quoteResp.subtotal = 2599
    /\ quoteResp.shipping = 500
    /\ quoteResp.tax = 214

-----------------------------------------------------------------------------
(* Properties of the seeder, under SpecSeedSerial and SpecSeed *)

\* The demo documents a collection holds.
DemoCategories == { i \in DOMAIN category :
                      \E k \in DOMAIN seed_categories : category[i].slug = seed_categories[k] }

DemoProducts == { i \in DOMAIN product :
                    \E k \in DOMAIN seed_products : product[i].title = seed_products[k] }

\* The database is up, no client has created a document and no database
\* call has failed.
OnlySeedCalls ==
    /\ db
    /\ DemoCategories = DOMAIN category
    /\ DemoProducts = DOMAIN product
    /\ \A p \in Seeders : ~caught[p]

\* C3: from an empty catalog and an available database, invocations of the
\* seed operation that do not overlap leave exactly 4 categories and 6
\* products; the first reports {4, 6} and every later one {0, 0}.
C3_SequentialSeedingIdempotent ==
    OnlySeedCalls
    => /\ \A k \in 1..Len(seedLog) :
             seedLog[k] = IF k = 1 THEN [categories |-> 4, products |-> 6]
                                   ELSE [categories |-> 0, products |-> 0]
       /\ Len(seedLog) >= 1 => (Len(category) = 4 /\ Len(product) = 6)

\* Two invocations in sequence returned on a catalog that started empty.
C3_Witness ==
    /\ OnlySeedCalls
    /\ Len(seedLog) >= 2
    /\ seedLog[1] = [categories |-> 4, products |-> 6]
    /\ seedLog[2] = [categories |-> 0, products |-> 0]
    /\ Len(category) = 4
    /\ Len(product) = 6

\* The number of documents of `coll` whose `field` is `value`.
Copies(coll, field, value) ==
    Cardinality({ i \in DOMAIN coll : coll[i][field] = value })

\* C4: nothing keeps two overlapping invocations apart: whenever two of them
\* have both inserted after both saw a zero count, both report non-zero
\* counts and the collection holds every demo document at least twice (8
\* categories, 12 products for two invocations).
C4_ConcurrentSeedingDuplicates ==
    \A p, q \in Seeders :
        p # q =>
          /\ (created[p].categories > 0 /\ created[q].categories > 0)
             => /\ Cardinality(DemoCategories) >= 8
                /\ \A k \in DOMAIN seed_categories :
                      Copies(category, "slug", seed_categories[k]) >= 2
          /\ (created[p].products > 0 /\ created[q].products > 0)
             => /\ Cardinality(DemoProducts) >= 12
                /\ \A k \in DOMAIN seed_products :
                      Copies(product, "title", seed_products[k]) >= 2

\* Two invocations on an empty catalog both inserted both lists.
C4_Witness ==
    /\ \E p, q \in Seeders :
          /\ p # q
          /\ pc[p] = "done" /\ pc[q] = "done"
          /\ created[p] = [categories |-> 4, products |-> 6]
          /\ created[q] = [categories |-> 4, products |-> 6]
    /\ Len(category) = 8
    /\ Len(product) = 12
    /\ Copies(category, "slug", "raw-honey") = 2
    /\ Len(seedLog) >= 2
    /\ seedLog[1].categories > 0 /\ seedLog[2].categories > 0

RECURSIVE SumOver(_, _)
SumOver(f, S) ==
    IF S = {} THEN 0
    ELSE LET x == CHOOSE y \in S : TRUE IN f[x] + SumOver(f, S \ {x})

-----------------------------------------------------------------------------
(* Properties of the product lookup, under SpecLookup *)

\* The first of a non-empty set of positions.
First(S) == CHOOSE i \in S : \A j \in S : i <= j

\* C10: GET /api/products/{product_id} returns the product found by the
\* earliest of (a) native identifier, (b) stored `id`, (c) stored `slug` that
\* matches; it ends 404 exactly when none matches, and 500 without a database
\* connection.
C10_LookupChain ==
    lookupResp.status # 0
    => LET value    == lookupResp.product_id
           byNative == { i \in DOMAIN product : value \in OidForms(product[i]._id) }
           byId     == { i \in DOMAIN product : product[i].id = value }
           bySlug   == { i \in DOMAIN product : product[i].slug = value }
           Returns(i) == /\ lookupResp.status = 200
                         /\ lookupResp.body.id = OidHex[product[i]._id]
                         /\ lookupResp.body.slug = product[i].slug
       IN  IF ~db THEN lookupResp.status = 500
           ELSE IF byNative # {} THEN Returns(First(byNative))
           ELSE IF byId # {} THEN Returns(First(byId))
           ELSE IF bySlug # {} THEN Returns(First(bySlug))
           ELSE lookupResp.status = 404

\* A value that is the slug of the first product and the `id` of the second:
\* the second is returned.
C10_Witness ==
    /\ db
    /\ Len(product) >= 2
    /\ lookupResp.status = 200
    /\ lookupResp.product_id = "wildflower"
    /\ product[1].slug = "wildflower" /\ product[1].id = None
    /\ product[2].id = "wildflower"
    /\ lookupResp.body.id = OidHex[2]

====
